---- MODULE Spec2Model ----
(***************************************************************************)
(* Botify: the two InstagramBot programs of the repository.                *)
(*   variant "bot"  src/bot.py  stories, feed, follow/unfollow of a target *)
(*   variant "ig"   src/ig.py   stories, feed, welcome DM to new followers *)
(* One step of the model is one provider call (on self.cl) together with   *)
(* the local control flow that follows it up to the next provider call,    *)
(* sleep or process end.  The provider's answer (a result or a raised      *)
(* exception, the length of a returned list, the ids in it) and the random *)
(* draws are the inputs, chosen with \E.                                   *)
(* Four specifications:                                                    *)
(*   Spec         either program, run() for MaxCycles cycles               *)
(*   SpecCalls    the methods of bot.py called directly on the object      *)
(*   SpecRestart  ig.py, the process ended and started again               *)
(*   SpecBot      bot.py, run() without end, under weak fairness           *)
(***************************************************************************)
EXTENDS Integers, Sequences, FiniteSets, TLC

----------------------------------------------------------------------------
(* Bounds of the model *)

\* largest ceiling a category of self.limits is given
MaxLimit == 1
\* cycles of run()'s while-loop that are explored
MaxCycles == 2
\* calls of one method that a direct caller makes
MaxCalls == 2
\* times the process is started again
MaxRestarts == 1
\* largest count _within_limit is asked about
MaxCount == 2

----------------------------------------------------------------------------
(* Program constants *)

BackoffMin == 600           \* _handle_retry: random.randint(600, 1200)
BackoffMax == 1200
UnfollowWaitMin == 600      \* execute_cycle: random.randint(600, 1200)
UnfollowWaitMax == 1200
CycleDelay == 1800          \* delay = 1800
LikeStoryThreshold == 7     \* random.random() < 0.7, in tenths
CommentThreshold == 3       \* random.random() < 0.3, in tenths
SuccessDelayMin == 12       \* random.uniform(1.2, 3.8), in tenths of a second
SuccessDelayMax == 38
Undef == -1                 \* a local variable outside its function's frame
TargetAccount == 1          \* os.getenv("TARGET_ACCOUNT")

FollowsLimit == 10          \* 'follows': 10

\* the ids the provider's stories, posts and followers carry
StoryIds == {1, 2}
PostIds == {1, 2}
UserIds == {1, 2}

\* floor(10 * random.random()): the values on both sides of the threshold the
\* draw is compared with
StoryDraws == {LikeStoryThreshold - 1, LikeStoryThreshold}
CommentDraws == {CommentThreshold - 1, CommentThreshold}
Draws == StoryDraws \cup CommentDraws
NoDraw == -1

\* what a provider call can do: return, or raise one of the exception kinds
\* the programs import; "Exception" is any other exception (KeyError, ...).
\* BadPassword is raised by cl.login only, LoginRequired by the other calls.
Kinds == {"ClientConnectionError", "ChallengeRequired", "LoginRequired",
          "BadPassword", "Exception"}
Outcomes == {"ok"} \cup (Kinds \ {"BadPassword"})
LoginOutcomes == {"ok"} \cup (Kinds \ {"LoginRequired"})

Variants == {"bot", "ig"}
Passes == {"handle_stories", "engage_feed", "follow_target_account",
           "unfollow_target_account", "dm_new_followers"}

\* self.limits of each program
Categories(v) ==
    IF v = "bot" THEN {"likes", "comments", "story_views", "follows"}
                 ELSE {"likes", "comments", "dms", "story_views"}

\* the ceilings explored: every ceiling the passes consult ranges over
\* 0..MaxLimit, in place of the source's 100, 40, 200 and 20, which no bounded
\* run reaches; 'follows' is consulted by no line of src/bot.py and keeps the
\* source's value
Ceilings(v) ==
    {l \in [Categories(v) -> (0..MaxLimit) \cup {FollowsLimit}] :
        \A c \in Categories(v) : (c = "follows") <=> (l[c] = FollowsLimit)}

NoCall == [op |-> "none", id |-> 0, res |-> "none"]
NoSleep == [what |-> "none", tenths |-> 0]
NoFile == [exists |-> FALSE, lines |-> << >>]
NoQuery == [action |-> "none", count |-> 0, result |-> FALSE]

VARIABLES
    variant,            \* which of the two programs runs
    subclassed,         \* instagrapi declares ChallengeRequired, LoginRequired
                        \* and BadPassword as subclasses of ClientError (the
                        \* library is not part of the repository: both ways)
    limits,             \* self.limits
    keys,               \* the type of the keys of cl.user_followers(): "int" or
                        \* "str" (the library is not part of the repository)
    caller,             \* who calls the object's methods: "run" (the program)
                        \* or "direct" (a caller of single methods)
    restarts,           \* times the process was started again
    loaded,             \* what _load_messaged_users returned to __init__
    query,              \* the last direct call of _within_limit and its result
    pc,                 \* position of the single thread
    pass,               \* the wrapped action whose wrapper is on the stack
    cycle,              \* number of the current cycle of run()
    exitCode,           \* exit status once the process has ended
    viewed_stories, liked_posts, commented_posts, followed_accounts,
    messaged_users,     \* the trackers
    file,               \* messaged_users.txt
    story_count, like_count, comment_count, dm_count,   \* per-pass counters
    story,              \* the story between story_seen and story_like
    post,               \* the post between media_like and media_comment
    current_followers,  \* followers left in current_followers.items()
    user_id,            \* the follower between direct_send and the file append
    call,               \* the provider call this step made, with its outcome
    slept,              \* the time.sleep this step made
    ret,                \* what a wrapper returned to execute_cycle in this step
    draw,               \* the random.random() draw of this step
    succ,               \* per category: provider actions that succeeded since
                        \* the wrapper of the current pass was entered
    invoked,            \* per wrapped action: invocations in this cycle
    results,            \* per wrapped action: what its wrapper returned in this cycle
    ever,               \* per category: ids that were ever in its tracker
    loggedIn,           \* some cl.login has succeeded
    dms_sent            \* per account: direct_send calls that succeeded, over
                        \* all processes

config == <<variant, subclassed, limits, keys, caller, restarts, loaded, query>>
ctl == <<pc, pass, cycle, exitCode>>
trackers == <<viewed_stories, liked_posts, commented_posts, followed_accounts,
              messaged_users, file>>
counters == <<story_count, like_count, comment_count, dm_count>>
iter == <<story, post, current_followers, user_id>>
obs == <<call, slept, ret, draw, succ, invoked, results, ever, loggedIn>>
vars == <<config, ctl, trackers, counters, iter, obs, dms_sent>>

----------------------------------------------------------------------------
(* Pure helpers *)

\* random.uniform(1.2, 3.8), in tenths of a second; the two ends are explored
SuccessDelays == {SuccessDelayMin, SuccessDelayMax}

\* isinstance(raised kind, class named in an except clause)
IsInstance(kind, class) ==
    \/ kind = class
    \/ class = "Exception"
    \/ /\ class = "ClientError"
       /\ \/ kind = "ClientConnectionError"
          \/ subclassed /\ kind \in {"ChallengeRequired", "LoginRequired", "BadPassword"}

randint_open(a, b) == {a, b + 1}

\* random.randint(a, b): an integer of a..b; the two ends are explored
randint(a, b) == {a, b}

\* safe_action's except clauses, tried in the order written
safe_action(kind) ==
    IF IsInstance(kind, "ClientError") \/ IsInstance(kind, "ClientConnectionError")
    THEN "retry"
    ELSE IF kind = "ChallengeRequired" THEN "exit"
    ELSE IF kind = "LoginRequired" THEN "reauth"
    ELSE "propagate"

authenticate_without_badpassword(kind) ==
    IF kind = "ChallengeRequired" THEN "exit" ELSE "propagate"

\* authenticate's except clauses
authenticate(kind) ==
    IF kind = "ChallengeRequired" THEN "exit"
    ELSE IF kind = "BadPassword" THEN "exit"
    ELSE "propagate"

ceiling_or_max(c) == IF c \in DOMAIN limits THEN limits[c] ELSE MaxLimit

\* the ceiling of category c, as self.limits.get(c, 0) reads it
Ceiling(c) == IF c \in DOMAIN limits THEN limits[c] ELSE 0

within_limit_inclusive(action, count) == count <= Ceiling(action)

\* _within_limit: count < self.limits.get(action, 0)
within_limit(action, count) == count < Ceiling(action)

story_viewed_never(s) == FALSE

\* if story.id in self.viewed_stories: continue
story_viewed(s) == s \in viewed_stories

\* Python values that are user ids: the int n is written n and the str "n" is
\* written -n, so that "1" # 1, as in Python
PyInt(n) == n
PyStr(n) == -n

\* a line of messaged_users.txt is written as the number its digits spell, and
\* a blank line as 0
\* int(line.strip())
int_of_line(line) == PyInt(line)

\* f"{user_id}": the digits, of an int and of a str alike
format_user_id(v) == IF v < 0 THEN -v ELSE v

\* the account a user id names, whatever its type
Account(v) == IF v < 0 THEN -v ELSE v

\* the key current_followers has for follower n
Key(n) == IF keys = "str" THEN PyStr(n) ELSE PyInt(n)

\* _load_messaged_users: the ints of the non-blank lines
load_messaged_users(f) ==
    IF f.exists
    THEN {int_of_line(f.lines[i]) : i \in {j \in 1..Len(f.lines) : f.lines[j] # 0}}
    ELSE {}

\* _save_messaged_user: append one line, creating the file
save_messaged_user(f, u) ==
    [exists |-> TRUE, lines |-> Append(f.lines, format_user_id(u))]

execute_cycle_unless_false(p, r) ==
    IF p = "handle_stories" THEN "engage_feed"
    ELSE IF p = "engage_feed"
         THEN (IF variant = "bot" THEN "follow_target_account" ELSE "dm_new_followers")
    ELSE IF p = "follow_target_account"
         THEN (IF r # "False" THEN "unfollow_wait" ELSE "cycle_sleep")
    ELSE "cycle_sleep"

execute_cycle_stops_after_none(p, r) ==
    IF r = "None" /\ p = "handle_stories" THEN "cycle_sleep"
    ELSE IF p = "handle_stories" THEN "engage_feed"
    ELSE IF p = "engage_feed"
         THEN (IF variant = "bot" THEN "follow_target_account" ELSE "dm_new_followers")
    ELSE IF p = "follow_target_account"
         THEN (IF r = "True" THEN "unfollow_wait" ELSE "cycle_sleep")
    ELSE "cycle_sleep"

\* execute_cycle: where the thread goes when the wrapper of pass p returns r
execute_cycle(p, r) ==
    IF p = "handle_stories" THEN "engage_feed"
    ELSE IF p = "engage_feed"
         THEN (IF variant = "bot" THEN "follow_target_account" ELSE "dm_new_followers")
    ELSE IF p = "follow_target_account"
         THEN (IF r = "True" THEN "unfollow_wait" ELSE "cycle_sleep")
    ELSE "cycle_sleep"

\* where the thread goes when the wrapper of p returns r: back into
\* execute_cycle, or to the direct caller
Resume(p, r) == IF caller = "direct" THEN "direct" ELSE execute_cycle(p, r)

\* the files an earlier process can have left behind
InitialFiles == {NoFile, [exists |-> TRUE, lines |-> <<1>>]}

----------------------------------------------------------------------------
(* Building blocks of the actions *)

Zero(S) == [c \in S |-> 0]

\* the wrapper of the current pass returns r to execute_cycle
Returns(r) ==
    /\ ret' = r
    /\ results' = [results EXCEPT ![pass'] = r]

\* no wrapper returns in this step
NoReturn ==
    /\ ret' = "na"
    /\ UNCHANGED results

\* the frame of the wrapped function is gone: its locals no longer exist
DropLocals ==
    /\ story_count' = Undef /\ like_count' = Undef
    /\ comment_count' = Undef /\ dm_count' = Undef
    /\ story' = 0 /\ post' = 0 /\ current_followers' = {} /\ user_id' = 0

\* wrapper, line "result = func(...)" returned r: the short delay, then return r
Return(r) ==
    /\ \E t \in SuccessDelays : slept' = [what |-> "success_delay", tenths |-> t]
    /\ Returns(r)
    /\ pc' = Resume(pass', r)
    /\ UNCHANGED <<cycle, exitCode>>
    /\ DropLocals

\* exit(1)
Exit ==
    /\ pc' = "exited" /\ exitCode' = 1
    /\ UNCHANGED cycle

\* an exception nothing catches: traceback, interpreter ends with status 1
Uncaught ==
    /\ pc' = "crashed" /\ exitCode' = 1
    /\ UNCHANGED cycle

\* an exception of kind k leaves the wrapped function and reaches the wrapper
Raise(k) ==
    /\ slept' = NoSleep /\ NoReturn
    /\ DropLocals
    /\ IF safe_action(k) = "retry"
         THEN pc' = "retry" /\ UNCHANGED <<cycle, exitCode>>
       ELSE IF safe_action(k) = "exit" THEN Exit
       ELSE IF safe_action(k) = "reauth"
         THEN pc' = "reauth" /\ UNCHANGED <<cycle, exitCode>>
       ELSE Uncaught

\* the wrapper of action p is entered: one more invocation in this cycle
Invoke(p) ==
    /\ pass' = p
    /\ invoked' = [invoked EXCEPT ![p] = @ + 1]
    /\ succ' = Zero(DOMAIN succ)

\* one more successful provider action of category c, on id i
Succeed(c, i) ==
    /\ succ' = [succ EXCEPT ![c] = @ + 1]
    /\ ever' = [ever EXCEPT ![c] = @ \cup {i}]

----------------------------------------------------------------------------
(* Initial state: the object after __init__, run() not yet started *)

\* InstagramBot(): the object __init__ leaves
Constructed ==
    /\ variant \in Variants
    /\ subclassed \in BOOLEAN
    /\ limits \in Ceilings(variant)
    /\ restarts = 0 /\ query = NoQuery
    /\ dms_sent = Zero(UserIds)
    /\ pass = "none" /\ cycle = 0 /\ exitCode = Undef
    /\ viewed_stories = {} /\ liked_posts = {} /\ commented_posts = {}
    /\ followed_accounts = {}
    /\ file \in (IF variant = "ig" THEN InitialFiles ELSE {NoFile})
    /\ loaded = load_messaged_users(file)
    /\ messaged_users = loaded
    \* only ig.py reads the keys of user_followers()
    /\ keys \in (IF variant = "ig" THEN {"int", "str"} ELSE {"int"})
    /\ story_count = Undef /\ like_count = Undef
    /\ comment_count = Undef /\ dm_count = Undef
    /\ story = 0 /\ post = 0 /\ current_followers = {} /\ user_id = 0
    /\ call = NoCall /\ slept = NoSleep /\ ret = "na" /\ draw = NoDraw
    /\ succ = Zero(Categories(variant))
    /\ invoked = Zero(Passes)
    /\ results = [p \in Passes |-> "na"]
    /\ ever = [c \in Categories(variant) |->
                 IF c = "dms" THEN load_messaged_users(file) ELSE {}]
    /\ loggedIn = FALSE

\* __main__: bot = InstagramBot(); bot.run()
Init ==
    /\ Constructed
    /\ caller = "run" /\ pc = "run"
    \* a process that starts without a file has no loaded id a key could fail
    \* to match, and whatever it adds has the type of its keys: within one
    \* process the two types of keys behave alike, and one is explored
    /\ file.exists \/ keys = "int"

----------------------------------------------------------------------------
(* run() and authenticate() *)

\* run(): self.authenticate(), then the first cycle
run ==
    /\ pc = "run"
    /\ UNCHANGED pass
    /\ \E r \in LoginOutcomes :
        /\ call' = [op |-> "login", id |-> 0, res |-> r]
        /\ IF r = "ok"
             THEN /\ pc' = "handle_stories" /\ cycle' = 1 /\ loggedIn' = TRUE
                  /\ UNCHANGED exitCode
           ELSE IF authenticate(r) = "exit"
             THEN Exit /\ UNCHANGED loggedIn
           ELSE Uncaught /\ UNCHANGED loggedIn
    /\ slept' = NoSleep /\ NoReturn /\ draw' = NoDraw
    /\ UNCHANGED dms_sent
    /\ UNCHANGED <<config, trackers, counters, iter, succ, invoked, ever>>

\* safe_action, except LoginRequired: self.authenticate(), then return None
reauthenticate ==
    /\ pc = "reauth"
    /\ UNCHANGED pass
    /\ \E r \in LoginOutcomes :
        /\ call' = [op |-> "login", id |-> 0, res |-> r]
        /\ IF r = "ok"
             THEN /\ pc' = Resume(pass, "None")
                  /\ Returns("None") /\ loggedIn' = TRUE
                  /\ UNCHANGED <<cycle, exitCode>>
           ELSE IF authenticate(r) = "exit"
             THEN Exit /\ NoReturn /\ UNCHANGED loggedIn
           ELSE Uncaught /\ NoReturn /\ UNCHANGED loggedIn
    /\ slept' = NoSleep /\ draw' = NoDraw
    /\ UNCHANGED dms_sent
    /\ UNCHANGED <<config, trackers, counters, iter, succ, invoked, ever>>

\* safe_action, except (ClientError, ClientConnectionError): _handle_retry(),
\* then return None
handle_retry ==
    /\ pc = "retry"
    /\ UNCHANGED pass
    /\ \E d \in randint(BackoffMin, BackoffMax) :
        slept' = [what |-> "backoff", tenths |-> 10 * d]
    /\ call' = NoCall /\ Returns("None") /\ draw' = NoDraw
    /\ pc' = Resume(pass, "None")
    /\ UNCHANGED <<cycle, exitCode>>
    /\ UNCHANGED dms_sent
    /\ UNCHANGED <<config, trackers, counters, iter, succ, invoked, ever, loggedIn>>

\* run(): time.sleep(delay) after execute_cycle, then the next cycle
cycle_sleep ==
    /\ pc = "cycle_sleep"
    /\ UNCHANGED pass
    /\ cycle < MaxCycles
    /\ slept' = [what |-> "cycle", tenths |-> 10 * CycleDelay]
    /\ pc' = "handle_stories" /\ cycle' = cycle + 1
    /\ invoked' = Zero(Passes)
    /\ results' = [p \in Passes |-> "na"]
    /\ call' = NoCall /\ ret' = "na" /\ draw' = NoDraw
    /\ UNCHANGED <<exitCode>>
    /\ UNCHANGED dms_sent
    /\ UNCHANGED <<config, trackers, counters, iter, succ, ever, loggedIn>>

----------------------------------------------------------------------------
(* handle_stories *)
(* The lists the provider returns are not materialised: at each loop head  *)
(* the list either has ended or holds one more item, which is any id, so   *)
(* lists of every length, order and repetition are covered.                *)

\* wrapper entered; following = self.cl.user_following(...); story_count = 0
handle_stories ==
    /\ pc = "handle_stories"
    /\ Invoke("handle_stories")
    /\ draw' = NoDraw
    /\ \E r \in Outcomes :
        /\ call' = [op |-> "user_following", id |-> 0, res |-> r]
        /\ IF r = "ok"
             THEN /\ story_count' = 0
                  /\ pc' = "for_user"
                  /\ slept' = NoSleep /\ NoReturn
                  /\ UNCHANGED <<cycle, exitCode>>
                  /\ UNCHANGED <<like_count, comment_count, dm_count, iter>>
             ELSE Raise(r)
    /\ UNCHANGED dms_sent
    /\ UNCHANGED <<config, trackers, ever, loggedIn>>

\* for user in following.values(): the quota check, then
\* stories = self.cl.user_stories(user.pk) inside the try
for_user ==
    /\ pc = "for_user"
    /\ UNCHANGED pass
    /\ draw' = NoDraw
    /\ \E more \in BOOLEAN :
        IF ~more \/ story_count >= limits["story_views"]
          THEN /\ call' = NoCall
               /\ Return("None")
          ELSE /\ slept' = NoSleep /\ NoReturn
               /\ \E r \in Outcomes :
                   /\ call' = [op |-> "user_stories", id |-> 0, res |-> r]
                   /\ IF r = "ok"
                        THEN pc' = "for_story"
                        \* except Exception: the next account
                        ELSE pc' = "for_user"
               /\ UNCHANGED <<cycle, exitCode, counters, iter>>
    /\ UNCHANGED dms_sent
    /\ UNCHANGED <<config, trackers, succ, invoked, ever, loggedIn>>

\* for story in stories: the duplicate check, then self.cl.story_seen([story.pk])
\* and self.viewed_stories.add(story.id)
for_story ==
    /\ pc = "for_story"
    /\ UNCHANGED pass
    /\ draw' = NoDraw /\ slept' = NoSleep /\ NoReturn
    /\ \E more \in BOOLEAN :
        IF ~more
          THEN /\ call' = NoCall /\ pc' = "for_user"
               /\ UNCHANGED <<story, viewed_stories, succ, ever>>
          ELSE \E s \in StoryIds :
               IF story_viewed(s)
                 THEN \* continue
                      /\ call' = NoCall /\ pc' = "for_story"
                      /\ UNCHANGED <<story, viewed_stories, succ, ever>>
                 ELSE \E r \in Outcomes :
                      /\ call' = [op |-> "story_seen", id |-> s, res |-> r]
                      /\ IF r = "ok"
                           THEN /\ viewed_stories' = viewed_stories \cup {s}
                                /\ Succeed("story_views", s)
                                /\ story' = s
                                /\ pc' = "story_like"
                           \* except Exception: the next account
                           ELSE /\ pc' = "for_user"
                                /\ UNCHANGED <<story, viewed_stories, succ, ever>>
    /\ UNCHANGED <<cycle, exitCode, counters>>
    /\ UNCHANGED <<post, current_followers, user_id>>
    /\ UNCHANGED dms_sent
    /\ UNCHANGED <<config, liked_posts, commented_posts, followed_accounts,
                   messaged_users, file, invoked, loggedIn>>

story_like_whatever_the_draw ==
    /\ pc = "story_like"
    /\ UNCHANGED pass
    /\ slept' = NoSleep /\ NoReturn
    /\ story' = 0
    /\ \E d \in StoryDraws, r \in Outcomes :
        /\ draw' = d
        /\ call' = [op |-> "story_like", id |-> story, res |-> r]
        /\ IF r = "ok"
             THEN /\ story_count' = story_count + 1
                  /\ IF within_limit("story_views", story_count + 1)
                       THEN pc' = "for_story"
                       ELSE pc' = "for_user"
             ELSE /\ pc' = "for_user"
                  /\ UNCHANGED story_count
    /\ UNCHANGED <<cycle, exitCode, like_count, comment_count, dm_count>>
    /\ UNCHANGED <<post, current_followers, user_id>>
    /\ UNCHANGED dms_sent
    /\ UNCHANGED <<config, trackers, succ, invoked, ever, loggedIn>>

\* if random.random() < 0.7: self.cl.story_like(story.id); story_count += 1;
\* if not self._within_limit('story_views', story_count): break
story_like ==
    /\ pc = "story_like"
    /\ UNCHANGED pass
    /\ slept' = NoSleep /\ NoReturn
    /\ story' = 0
    /\ \E d \in StoryDraws, r \in Outcomes :
        /\ draw' = d
        /\ IF d < LikeStoryThreshold
             THEN call' = [op |-> "story_like", id |-> story, res |-> r]
             ELSE call' = NoCall /\ r = "ok"
        /\ IF r = "ok"
             THEN /\ story_count' = story_count + 1
                  /\ IF within_limit("story_views", story_count + 1)
                       THEN pc' = "for_story"
                       ELSE pc' = "for_user"
             \* except Exception: the next account, story_count not incremented
             ELSE /\ pc' = "for_user"
                  /\ UNCHANGED story_count
    /\ UNCHANGED <<cycle, exitCode, like_count, comment_count, dm_count>>
    /\ UNCHANGED <<post, current_followers, user_id>>
    /\ UNCHANGED dms_sent
    /\ UNCHANGED <<config, trackers, succ, invoked, ever, loggedIn>>

----------------------------------------------------------------------------
(* engage_feed *)

\* wrapper entered; feed = self.cl.user_medias(...); like_count = comment_count = 0
engage_feed ==
    /\ pc = "engage_feed"
    /\ Invoke("engage_feed")
    /\ draw' = NoDraw
    /\ \E r \in Outcomes :
        /\ call' = [op |-> "user_medias", id |-> 0, res |-> r]
        /\ IF r = "ok"
             THEN /\ like_count' = 0 /\ comment_count' = 0
                  /\ pc' = "for_post"
                  /\ slept' = NoSleep /\ NoReturn
                  /\ UNCHANGED <<cycle, exitCode>>
                  /\ UNCHANGED <<story_count, dm_count, iter>>
             ELSE Raise(r)
    /\ UNCHANGED dms_sent
    /\ UNCHANGED <<config, trackers, ever, loggedIn>>

\* the loop goes on without leaving the wrapped function
Stay ==
    /\ slept' = NoSleep /\ NoReturn
    /\ UNCHANGED <<cycle, exitCode>>

\* for post in feed: the duplicate check, then under the likes quota
\* self.cl.media_like(post.id), self.liked_posts.add(post.id), like_count += 1
for_post ==
    /\ pc = "for_post"
    /\ UNCHANGED pass
    /\ draw' = NoDraw
    /\ \E more \in BOOLEAN :
        IF ~more
          THEN /\ call' = NoCall
               /\ Return("None")
               /\ UNCHANGED <<liked_posts, succ, ever>>
          ELSE \E p \in PostIds :
               IF p \in liked_posts
                 THEN \* continue
                      /\ call' = NoCall /\ pc' = "for_post" /\ Stay
                      /\ UNCHANGED <<counters, iter, liked_posts, succ, ever>>
               ELSE IF within_limit("likes", like_count)
                 THEN \E r \in Outcomes :
                      /\ call' = [op |-> "media_like", id |-> p, res |-> r]
                      /\ IF r = "ok"
                           THEN /\ liked_posts' = liked_posts \cup {p}
                                /\ Succeed("likes", p)
                                /\ like_count' = like_count + 1
                                /\ post' = p
                                /\ pc' = "comment" /\ Stay
                                /\ UNCHANGED <<story_count, comment_count, dm_count>>
                                /\ UNCHANGED <<story, current_followers, user_id>>
                           ELSE /\ Raise(r)
                                /\ UNCHANGED <<liked_posts, succ, ever>>
                 ELSE /\ call' = NoCall /\ pc' = "comment" /\ Stay
                      /\ post' = p
                      /\ UNCHANGED <<counters, story, current_followers, user_id>>
                      /\ UNCHANGED <<liked_posts, succ, ever>>
    /\ UNCHANGED dms_sent
    /\ UNCHANGED <<config, viewed_stories, commented_posts, followed_accounts,
                   messaged_users, file, invoked, loggedIn>>

\* if under the comments quota and not commented and random.random() < 0.3:
\* self.cl.media_comment(...), self.commented_posts.add(post.id), comment_count += 1
comment ==
    /\ pc = "comment"
    /\ UNCHANGED pass
    /\ IF within_limit("comments", comment_count) /\ post \notin commented_posts
         THEN \E d \in CommentDraws :
              /\ draw' = d
              /\ IF d < CommentThreshold
                   THEN \E r \in Outcomes :
                        /\ call' = [op |-> "media_comment", id |-> post, res |-> r]
                        /\ IF r = "ok"
                             THEN /\ commented_posts' = commented_posts \cup {post}
                                  /\ Succeed("comments", post)
                                  /\ comment_count' = comment_count + 1
                                  /\ post' = 0 /\ pc' = "for_post" /\ Stay
                                  /\ UNCHANGED <<story_count, like_count, dm_count>>
                                  /\ UNCHANGED <<story, current_followers, user_id>>
                             ELSE /\ Raise(r)
                                  /\ UNCHANGED <<commented_posts, succ, ever>>
                   ELSE /\ call' = NoCall /\ post' = 0 /\ pc' = "for_post" /\ Stay
                        /\ UNCHANGED <<counters, story, current_followers, user_id>>
                        /\ UNCHANGED <<commented_posts, succ, ever>>
         ELSE /\ draw' = NoDraw
              /\ call' = NoCall /\ post' = 0 /\ pc' = "for_post" /\ Stay
              /\ UNCHANGED <<counters, story, current_followers, user_id>>
              /\ UNCHANGED <<commented_posts, succ, ever>>
    /\ UNCHANGED dms_sent
    /\ UNCHANGED <<config, viewed_stories, liked_posts, followed_accounts,
                   messaged_users, file, invoked, loggedIn>>

----------------------------------------------------------------------------
(* follow_target_account, unfollow_target_account (src/bot.py) *)

\* wrapper entered; the already-followed check, then inside the try
\* user_id = self.cl.user_id_from_username(self.target_account)
follow_target_account ==
    /\ pc = "follow_target_account"
    /\ Invoke("follow_target_account")
    /\ draw' = NoDraw
    /\ IF TargetAccount \in followed_accounts
         THEN call' = NoCall /\ Return("False")
         ELSE \E r \in Outcomes :
              /\ call' = [op |-> "user_id_from_username", id |-> TargetAccount, res |-> r]
              /\ IF r = "ok"
                   THEN /\ pc' = "user_follow"
                        /\ slept' = NoSleep /\ NoReturn
                        /\ UNCHANGED <<cycle, exitCode, counters, iter>>
                   \* except Exception: return None
                   ELSE Return("None")
    /\ UNCHANGED dms_sent
    /\ UNCHANGED <<config, trackers, ever, loggedIn>>

user_follow_records_first ==
    /\ pc = "user_follow"
    /\ UNCHANGED pass
    /\ draw' = NoDraw
    /\ \E r \in Outcomes :
        /\ call' = [op |-> "user_follow", id |-> TargetAccount, res |-> r]
        /\ followed_accounts' = followed_accounts \cup {TargetAccount}
        /\ Succeed("follows", TargetAccount)
        /\ Return(IF r = "ok" THEN "True" ELSE "None")
    /\ UNCHANGED dms_sent
    /\ UNCHANGED <<config, viewed_stories, liked_posts, commented_posts,
                   messaged_users, file, invoked, loggedIn>>

\* self.cl.user_follow(user_id); self.followed_accounts.add(...); return True
user_follow ==
    /\ pc = "user_follow"
    /\ UNCHANGED pass
    /\ draw' = NoDraw
    /\ \E r \in Outcomes :
        /\ call' = [op |-> "user_follow", id |-> TargetAccount, res |-> r]
        /\ IF r = "ok"
             THEN /\ followed_accounts' = followed_accounts \cup {TargetAccount}
                  /\ Succeed("follows", TargetAccount)
                  /\ Return("True")
             \* except Exception: return None
             ELSE /\ Return("None")
                  /\ UNCHANGED <<followed_accounts, succ, ever>>
    /\ UNCHANGED dms_sent
    /\ UNCHANGED <<config, viewed_stories, liked_posts, commented_posts,
                   messaged_users, file, invoked, loggedIn>>

\* execute_cycle: time.sleep(random.randint(600, 1200)) before unfollowing
unfollow_wait ==
    /\ pc = "unfollow_wait"
    /\ UNCHANGED pass
    /\ \E d \in randint(UnfollowWaitMin, UnfollowWaitMax) :
        slept' = [what |-> "unfollow_wait", tenths |-> 10 * d]
    /\ pc' = "unfollow_target_account"
    /\ call' = NoCall /\ NoReturn /\ draw' = NoDraw
    /\ UNCHANGED <<cycle, exitCode>>
    /\ UNCHANGED dms_sent
    /\ UNCHANGED <<config, trackers, counters, iter, succ, invoked, ever, loggedIn>>

\* wrapper entered; the not-followed check, then inside the try
\* user_id = self.cl.user_id_from_username(self.target_account)
unfollow_target_account ==
    /\ pc = "unfollow_target_account"
    /\ Invoke("unfollow_target_account")
    /\ draw' = NoDraw
    /\ IF TargetAccount \notin followed_accounts
         THEN call' = NoCall /\ Return("False")
         ELSE \E r \in Outcomes :
              /\ call' = [op |-> "user_id_from_username", id |-> TargetAccount, res |-> r]
              /\ IF r = "ok"
                   THEN /\ pc' = "user_unfollow"
                        /\ slept' = NoSleep /\ NoReturn
                        /\ UNCHANGED <<cycle, exitCode, counters, iter>>
                   \* except Exception: return None
                   ELSE Return("None")
    /\ UNCHANGED dms_sent
    /\ UNCHANGED <<config, trackers, ever, loggedIn>>

user_unfollow_always_removes ==
    /\ pc = "user_unfollow"
    /\ UNCHANGED pass
    /\ draw' = NoDraw
    /\ \E r \in Outcomes :
        /\ call' = [op |-> "user_unfollow", id |-> TargetAccount, res |-> r]
        /\ followed_accounts' = followed_accounts \ {TargetAccount}
        /\ Return(IF r = "ok" THEN "True" ELSE "None")
    /\ UNCHANGED dms_sent
    /\ UNCHANGED <<config, viewed_stories, liked_posts, commented_posts,
                   messaged_users, file, succ, invoked, ever, loggedIn>>

\* self.cl.user_unfollow(user_id); self.followed_accounts.remove(...); return True
user_unfollow ==
    /\ pc = "user_unfollow"
    /\ UNCHANGED pass
    /\ draw' = NoDraw
    /\ \E r \in Outcomes :
        /\ call' = [op |-> "user_unfollow", id |-> TargetAccount, res |-> r]
        /\ IF r = "ok"
             THEN /\ followed_accounts' = followed_accounts \ {TargetAccount}
                  /\ Return("True")
             \* except Exception: return None
             ELSE /\ Return("None")
                  /\ UNCHANGED followed_accounts
    /\ UNCHANGED dms_sent
    /\ UNCHANGED <<config, viewed_stories, liked_posts, commented_posts,
                   messaged_users, file, succ, invoked, ever, loggedIn>>

----------------------------------------------------------------------------
(* dm_new_followers (src/ig.py) *)

\* wrapper entered; current_followers = self.cl.user_followers(...); dm_count = 0
dm_new_followers ==
    /\ pc = "dm_new_followers"
    /\ Invoke("dm_new_followers")
    /\ draw' = NoDraw
    /\ \E r \in Outcomes :
        /\ call' = [op |-> "user_followers", id |-> 0, res |-> r]
        /\ IF r = "ok"
             THEN /\ \E F \in SUBSET UserIds : current_followers' = {Key(n) : n \in F}
                  /\ dm_count' = 0
                  /\ pc' = "for_follower"
                  /\ slept' = NoSleep /\ NoReturn
                  /\ UNCHANGED <<cycle, exitCode>>
                  /\ UNCHANGED <<story_count, like_count, comment_count,
                                 story, post, user_id>>
             ELSE Raise(r)
    /\ UNCHANGED dms_sent
    /\ UNCHANGED <<config, trackers, ever, loggedIn>>

\* for user_id, user in current_followers.items(): the quota and duplicate
\* check, then self.cl.direct_send(...) and self.messaged_users.add(user_id)
for_follower ==
    /\ pc = "for_follower"
    /\ UNCHANGED pass
    /\ draw' = NoDraw
    /\ IF current_followers = {}
         THEN /\ call' = NoCall
              /\ Return("None")
              /\ UNCHANGED <<messaged_users, succ, ever, dms_sent>>
         ELSE \E u \in current_followers :
              IF dm_count >= limits["dms"] \/ u \in messaged_users
                THEN \* continue
                     /\ call' = NoCall /\ pc' = "for_follower"
                     /\ current_followers' = current_followers \ {u}
                     /\ slept' = NoSleep /\ NoReturn
                     /\ UNCHANGED <<cycle, exitCode, counters>>
                     /\ UNCHANGED <<story, post, user_id>>
                     /\ UNCHANGED <<messaged_users, succ, ever, dms_sent>>
                ELSE \E r \in Outcomes :
                     /\ call' = [op |-> "direct_send", id |-> u, res |-> r]
                     /\ IF r = "ok"
                          THEN /\ messaged_users' = messaged_users \cup {u}
                               /\ Succeed("dms", u)
                               /\ dms_sent' = [dms_sent EXCEPT ![Account(u)] = @ + 1]
                               /\ user_id' = u
                               /\ current_followers' = current_followers \ {u}
                               /\ pc' = "save_messaged_user"
                               /\ slept' = NoSleep /\ NoReturn
                               /\ UNCHANGED <<cycle, exitCode, counters>>
                               /\ UNCHANGED <<story, post>>
                          ELSE /\ Raise(r)
                               /\ UNCHANGED <<messaged_users, succ, ever, dms_sent>>
    /\ UNCHANGED <<config, viewed_stories, liked_posts, commented_posts,
                   followed_accounts, file, invoked, loggedIn>>

\* self._save_messaged_user(user_id): open(..., "a") and write, which can raise
\* OSError; then dm_count += 1
save_messaged_user_step ==
    /\ pc = "save_messaged_user"
    /\ UNCHANGED pass
    /\ call' = NoCall /\ draw' = NoDraw
    /\ \E written \in BOOLEAN :
        IF written
          THEN /\ file' = save_messaged_user(file, user_id)
               /\ dm_count' = dm_count + 1
               /\ user_id' = 0 /\ pc' = "for_follower"
               /\ slept' = NoSleep /\ NoReturn
               /\ UNCHANGED <<cycle, exitCode>>
               /\ UNCHANGED <<story_count, like_count, comment_count>>
               /\ UNCHANGED <<story, post, current_followers>>
          ELSE /\ Raise("Exception")
               /\ UNCHANGED file
    /\ UNCHANGED dms_sent
    /\ UNCHANGED <<config, viewed_stories, liked_posts, commented_posts,
                   followed_accounts, messaged_users, succ, invoked, ever, loggedIn>>

----------------------------------------------------------------------------
(* Direct calls: a caller other than run() (a test, an importing script)   *)
(* calls single methods of the object, in any order                        *)

\* the category names _within_limit is asked about: every category of the two
\* programs, so that each program is also asked about one it does not configure
QueryCategories == Categories("bot") \cup Categories("ig")

\* bot.follow_target_account() or bot.unfollow_target_account()
direct_call ==
    /\ pc = "direct" /\ variant = "bot"
    /\ \E m \in {"follow_target_account", "unfollow_target_account"} :
        /\ invoked[m] < MaxCalls
        /\ pc' = m
    /\ call' = NoCall /\ slept' = NoSleep /\ NoReturn /\ draw' = NoDraw
    /\ UNCHANGED <<pass, cycle, exitCode>>
    /\ UNCHANGED dms_sent
    /\ UNCHANGED <<config, trackers, counters, iter, succ, invoked, ever, loggedIn>>

\* bot._within_limit(action, count)
direct_within_limit ==
    /\ pc = "direct"
    /\ \E a \in QueryCategories, n \in 0..MaxCount :
        query' = [action |-> a, count |-> n, result |-> within_limit(a, n)]
    /\ call' = NoCall /\ slept' = NoSleep /\ NoReturn /\ draw' = NoDraw
    /\ UNCHANGED <<variant, subclassed, limits, keys, caller, restarts, loaded>>
    /\ UNCHANGED <<ctl, trackers, counters, iter, dms_sent>>
    /\ UNCHANGED <<succ, invoked, ever, loggedIn>>

InitCalls ==
    /\ Constructed
    /\ caller = "direct" /\ pc = "direct"

NextCalls ==
    \/ direct_call
    \/ direct_within_limit
    \/ follow_target_account
    \/ user_follow
    \/ unfollow_target_account
    \/ user_unfollow

SpecCalls == InitCalls /\ [][NextCalls]_vars

----------------------------------------------------------------------------
(* src/ig.py run as a process that is stopped and started again *)

\* the process ends wherever it is (it is killed, or it has exited or died by
\* itself) and "python ig.py" is started again: only messaged_users.txt is
\* kept, and __init__ loads it
restart ==
    /\ variant = "ig"
    /\ restarts < MaxRestarts
    /\ restarts' = restarts + 1
    /\ loaded' = load_messaged_users(file)
    /\ messaged_users' = loaded'
    /\ viewed_stories' = {} /\ liked_posts' = {} /\ commented_posts' = {}
    /\ followed_accounts' = {}
    /\ pc' = "run" /\ pass' = "none" /\ cycle' = 0 /\ exitCode' = Undef
    /\ DropLocals
    /\ call' = NoCall /\ slept' = NoSleep /\ ret' = "na" /\ draw' = NoDraw
    /\ succ' = Zero(DOMAIN succ)
    /\ invoked' = Zero(Passes)
    /\ results' = [p \in Passes |-> "na"]
    /\ ever' = [c \in DOMAIN ever |-> IF c = "dms" THEN loaded' ELSE {}]
    /\ loggedIn' = FALSE
    /\ UNCHANGED <<variant, subclassed, limits, keys, caller, query, file, dms_sent>>

\* every file and both types of keys: what one process writes, the next one
\* loads as int
InitRestart ==
    /\ Constructed
    /\ caller = "run" /\ pc = "run"
    /\ variant = "ig"

NextRestart ==
    \/ run
    \/ reauthenticate
    \/ handle_retry
    \/ cycle_sleep
    \/ handle_stories
    \/ for_user
    \/ for_story
    \/ story_like
    \/ engage_feed
    \/ for_post
    \/ comment
    \/ dm_new_followers
    \/ for_follower
    \/ save_messaged_user_step
    \/ restart

SpecRestart == InitRestart /\ [][NextRestart]_vars

----------------------------------------------------------------------------
(* src/bot.py run without end: past MaxCycles the cycles go on, uncounted *)

\* run(): time.sleep(delay) and the next cycle, in the cycles whose number is
\* no longer counted
cycle_sleep_uncounted ==
    /\ pc = "cycle_sleep"
    /\ UNCHANGED pass
    /\ cycle = MaxCycles
    /\ slept' = [what |-> "cycle", tenths |-> 10 * CycleDelay]
    /\ pc' = "handle_stories" /\ UNCHANGED cycle
    /\ invoked' = Zero(Passes)
    /\ results' = [p \in Passes |-> "na"]
    /\ call' = NoCall /\ ret' = "na" /\ draw' = NoDraw
    /\ UNCHANGED <<exitCode>>
    /\ UNCHANGED dms_sent
    /\ UNCHANGED <<config, trackers, counters, iter, succ, ever, loggedIn>>

InitBot ==
    /\ Init
    /\ variant = "bot"

NextBot ==
    \/ run
    \/ reauthenticate
    \/ handle_retry
    \/ cycle_sleep
    \/ cycle_sleep_uncounted
    \/ handle_stories
    \/ for_user
    \/ for_story
    \/ story_like
    \/ engage_feed
    \/ for_post
    \/ comment
    \/ follow_target_account
    \/ user_follow
    \/ unfollow_wait
    \/ unfollow_target_account
    \/ user_unfollow

\* the single thread takes its next step as long as it has one
SpecBot == InitBot /\ [][NextBot]_vars /\ WF_vars(NextBot)

----------------------------------------------------------------------------
(* The program *)

Next ==
    \/ run
    \/ reauthenticate
    \/ handle_retry
    \/ cycle_sleep
    \/ handle_stories
    \/ for_user
    \/ for_story
    \/ story_like
    \/ engage_feed
    \/ for_post
    \/ comment
    \/ follow_target_account
    \/ user_follow
    \/ unfollow_wait
    \/ unfollow_target_account
    \/ user_unfollow
    \/ dm_new_followers
    \/ for_follower
    \/ save_messaged_user_step

Spec == Init /\ [][Next]_vars

----------------------------------------------------------------------------
(* The claims *)

\* the provider action of each category, and the category of each action
ActionOf ==
    [story_views |-> "story_seen", likes |-> "media_like",
     comments |-> "media_comment", follows |-> "user_follow",
     dms |-> "direct_send"]

\* the per-pass counter of each category that has one
CounterOf(c) ==
    IF c = "story_views" THEN story_count
    ELSE IF c = "likes" THEN like_count
    ELSE IF c = "comments" THEN comment_count
    ELSE dm_count

Counted == {"story_views", "likes", "comments", "dms"}

\* C1: in every pass the counter of a category starts at 0 (it is 0 in the
\* state its pass enters its loop with), is never greater than the category's
\* ceiling, and a provider action of the category is invoked only from a state
\* whose counter is below the ceiling: once the counter has reached the
\* ceiling no further action of that category is invoked in that pass.
C1_CounterWithinCeiling ==
    [][ /\ (pc = "handle_stories" /\ pc' = "for_user") => story_count' = 0
        /\ (pc = "engage_feed" /\ pc' = "for_post")
              => (like_count' = 0 /\ comment_count' = 0)
        /\ (pc = "dm_new_followers" /\ pc' = "for_follower") => dm_count' = 0
        /\ \A c \in Counted \cap DOMAIN limits :
              /\ CounterOf(c)' <= limits[c]
              /\ call'.op = ActionOf[c]
                    => (CounterOf(c) >= 0 /\ CounterOf(c) < limits[c]) ]_vars

\* C1 witness: in the feed pass the likes counter has reached a ceiling of at
\* least 1 and the next post, not liked before, was passed over without a call
C1_Witness ==
    /\ pc = "comment" /\ call = NoCall
    /\ limits["likes"] >= 1 /\ like_count = limits["likes"]
    /\ post \notin liked_posts

\* C2: in every pass, and so in every cycle (each pass runs at most once per
\* cycle), the provider actions of a category that succeeded never exceed the
\* category's ceiling.
C2_SuccessesWithinCeiling ==
    /\ \A p \in Passes : invoked[p] <= 1
    /\ \A c \in DOMAIN succ : succ[c] <= limits[c]

Unguarded ==
    {"user_following", "user_medias", "media_like", "media_comment",
     "user_followers", "direct_send"}

Ended == pc \in {"exited", "crashed"}

\* C4: no wrapped action lets an exception through to execute_cycle: the
\* process never ends by an uncaught exception once a wrapper has been entered.
C4_WrapperNeverPropagates == pc = "crashed" => pass = "none"

\* C5: a transient failure never ends the process, wherever it is raised.
C5_TransientNeverTerminates == call.res = "ClientConnectionError" => ~Ended

\* C6: a transient failure of a provider call that reaches the wrapper puts the
\* thread into the backoff without a sleep or a return; the backoff is one
\* sleep of a whole number of seconds in 600..1200, with no provider call, no
\* success delay and no new invocation of the action; the wrapper then returns
\* None and the thread goes on after that pass; no pass is invoked twice in a
\* cycle.
C6_TransientBackoff ==
    [][ /\ (call'.res = "ClientConnectionError" /\ call'.op \in Unguarded)
              => (pc' = "retry" /\ slept' = NoSleep /\ ret' = "na")
        /\ pc = "retry"
              => /\ slept'.what = "backoff"
                 /\ \E d \in BackoffMin..BackoffMax : slept'.tenths = 10 * d
                 /\ call' = NoCall
                 /\ invoked' = invoked
                 /\ ret' = "None" /\ results'[pass] = "None"
                 /\ pc' # pass /\ pc' = execute_cycle(pass, "None")
        /\ \A p \in Passes : invoked'[p] <= 1 ]_vars

\* C6 witness: the feed pass failed on a transient error of media_like, the
\* backoff of 1200 s was slept and the wrapper returned None
C6_Witness ==
    /\ pass = "engage_feed" /\ results["engage_feed"] = "None"
    /\ slept = [what |-> "backoff", tenths |-> 10 * BackoffMax]
    /\ liked_posts # {}
    /\ pc \in {"follow_target_account", "dm_new_followers"}

\* C7: a BadPassword failure of cl.login ends the process by exit(1); an
\* exited process takes no further step; no provider call other than cl.login
\* is made before a cl.login has succeeded.
C7_BadPasswordFatal ==
    [][ /\ (call'.op = "login" /\ call'.res = "BadPassword")
              => (pc' = "exited" /\ exitCode' = 1)
        /\ pc = "exited" => vars' = vars
        /\ call'.op \notin {"none", "login"} => loggedIn ]_vars

\* C7 witness: a re-authentication inside a wrapper failed with BadPassword
\* and the process has exited
C7_Witness ==
    /\ cycle >= 1 /\ pass # "none"
    /\ call = [op |-> "login", id |-> 0, res |-> "BadPassword"]
    /\ pc = "exited" /\ exitCode = 1

\* C8: a ChallengeRequired failure, of cl.login or of any provider call of a
\* wrapped action, ends the process by exit(1) with no sleep (stated for the
\* reading of the except clauses in which ChallengeRequired is not a
\* ClientError).
C8_ChallengeFatal ==
    (~subclassed /\ call.res = "ChallengeRequired")
        => (pc = "exited" /\ exitCode = 1 /\ slept = NoSleep)

\* C9: a LoginRequired failure of any provider call of a wrapped action is
\* answered by the re-authentication before anything else (stated for the
\* reading of the except clauses in which LoginRequired is not a ClientError).
C9_LoginRequiredReauthenticates ==
    (~subclassed /\ call.res = "LoginRequired") => pc = "reauth"

\* C10: in src/bot.py, once follow_target_account has returned True the thread
\* waits 600..1200 s and then invokes unfollow_target_account, before the
\* cycle's sleep; unfollow_target_account is invoked in no cycle in which
\* follow_target_account did not return True.
C10_FollowPairedWithUnfollow ==
    [][ variant = "bot" =>
        /\ (results'["follow_target_account"] = "True"
               /\ invoked'["unfollow_target_account"] = 0)
              => pc' \in {"unfollow_wait", "unfollow_target_account"}
        /\ pc = "unfollow_wait"
              => /\ slept'.what = "unfollow_wait"
                 /\ \E d \in UnfollowWaitMin..UnfollowWaitMax : slept'.tenths = 10 * d
                 /\ call' = NoCall
                 /\ pc' = "unfollow_target_account"
        /\ pc = "unfollow_target_account"
              => invoked'["unfollow_target_account"] = 1
        /\ invoked'["unfollow_target_account"] >= 1
              => results'["follow_target_account"] = "True"
        /\ slept'.what = "cycle"
              => (results["follow_target_account"] = "True"
                    <=> invoked["unfollow_target_account"] = 1) ]_vars

\* C10 witness: a cycle in which the follow succeeded and the unfollow was
\* invoked and succeeded is at its end
C10_Witness ==
    /\ pc = "cycle_sleep"
    /\ results["follow_target_account"] = "True"
    /\ invoked["unfollow_target_account"] = 1
    /\ call = [op |-> "user_unfollow", id |-> TargetAccount, res |-> "ok"]

\* C11: unfollow_target_account entered while the target is not in
\* followed_accounts returns False without a provider call and leaves
\* followed_accounts as it is; cl.user_unfollow is called only while the target
\* is in followed_accounts; the target leaves followed_accounts only in the
\* step in which cl.user_unfollow returned, and a cl.user_unfollow that raised
\* leaves it in.
C11_UnfollowContract ==
    [][ /\ (pc = "unfollow_target_account" /\ TargetAccount \notin followed_accounts)
              => /\ ret' = "False" /\ results'["unfollow_target_account"] = "False"
                 /\ call' = NoCall
                 /\ followed_accounts' = followed_accounts
        /\ call'.op = "user_unfollow" => TargetAccount \in followed_accounts
        /\ (TargetAccount \in followed_accounts /\ TargetAccount \notin followed_accounts')
              => call' = [op |-> "user_unfollow", id |-> TargetAccount, res |-> "ok"]
        /\ (call'.op = "user_unfollow" /\ call'.res # "ok")
              => (TargetAccount \in followed_accounts' /\ ret' = "None") ]_vars

\* C11 witness: after a follow and an unfollow that succeeded, a second
\* unfollow with no follow in between has returned False without a call
C11_Witness ==
    /\ pc = "direct" /\ pass = "unfollow_target_account"
    /\ invoked["follow_target_account"] = 1
    /\ invoked["unfollow_target_account"] = 2
    /\ ever["follows"] = {TargetAccount}
    /\ TargetAccount \notin followed_accounts
    /\ ret = "False" /\ call = NoCall

\* the loop head a pass is at when it goes on to the next sibling of the item
\* whose provider call failed
SiblingLoop ==
    [user_stories |-> {"for_user"}, story_seen |-> {"for_story"},
     story_like |-> {"for_story"}, media_like |-> {"comment", "for_post"},
     media_comment |-> {"for_post"}, direct_send |-> {"for_follower"}]

\* C12: when a provider call for one item of a batch pass fails (a connection
\* error or an unclassified exception), the pass stays in its loop and goes on
\* with the next sibling: the next account after a failed story fetch, the next
\* story of the same account after a failed story_seen or story_like, the next
\* post after a failed media_like or media_comment, the next follower after a
\* failed direct_send.
C12_ItemFailureSkipped ==
    (call.op \in DOMAIN SiblingLoop /\ call.res \in {"ClientConnectionError", "Exception"})
        => pc \in SiblingLoop[call.op]

\* the accounts whose id, as an int or as a str, is in the set S of user ids
Accounts(S) == {Account(v) : v \in S}

\* C13: over all processes of src/ig.py, however each one ended, no account
\* gets more than one successful direct_send, and every account that got one
\* is in the set the next process loads from messaged_users.txt (stated for
\* follower keys that are ints, as the file's ids are).
C13_OneWelcomePerUser ==
    keys = "int" =>
        /\ \A u \in UserIds : dms_sent[u] <= 1
        /\ (restarts >= 1 /\ pc = "run")
              => \A u \in UserIds : dms_sent[u] >= 1 => u \in Accounts(loaded)

\* where the thread is between two passes, or before the first
BetweenPasses ==
    {"run", "handle_stories", "engage_feed", "dm_new_followers", "cycle_sleep"}

\* C14: the set a process loads holds the accounts of the file's lines; the
\* file only grows, by the line of the id that was just messaged; between
\* passes the accounts of the in-memory set are those of the file; and after a
\* restart no direct_send succeeds for an account of the loaded set.
C14_StoreRoundTrips ==
    [][ /\ pc' = "run" => loaded' = load_messaged_users(file')
        /\ Len(file'.lines) >= Len(file.lines)
        /\ SubSeq(file'.lines, 1, Len(file.lines)) = file.lines
        /\ file' # file => file'.lines = Append(file.lines, Account(user_id))
        /\ pc' \in BetweenPasses
              => Accounts(messaged_users') = Accounts(load_messaged_users(file'))
        /\ (restarts' >= 1 /\ call'.op = "direct_send" /\ call'.res = "ok")
              => Account(call'.id) \notin Accounts(loaded') ]_vars

\* C15: a call of _within_limit(action, count), for every category name and
\* every count of 0..MaxCount, returns True exactly when the category is
\* configured and count is below its ceiling, so for a category that is not
\* configured it returns False; the call changes nothing of the object and
\* returns to its caller.
C15_WithinLimit ==
    [][ query' # query =>
        /\ query'.action \in QueryCategories /\ query'.count \in 0..MaxCount
        /\ query'.result
              <=> (query'.action \in DOMAIN limits /\ query'.count < limits[query'.action])
        /\ query'.action \notin DOMAIN limits => ~query'.result
        /\ UNCHANGED <<limits, trackers, counters, iter, exitCode, loggedIn>>
        /\ pc' = pc ]_vars

\* C15 witness: asked about a category the program does not configure, with
\* count 0, _within_limit has returned False
C15_Witness ==
    /\ query.action \notin DOMAIN limits /\ query.action \in QueryCategories
    /\ query.count = 0 /\ query.result = FALSE
    /\ pc = "direct"

\* C16: once the first cycle has started, the process ends only by the exit(1)
\* of a BadPassword or ChallengeRequired failure: an exception that escapes the
\* handling inside a cycle does not end it (the cycle's 1800 s sleep and the
\* next cycle follow).
C16_StopsOnlyOnFatal ==
    (cycle >= 1 /\ Ended)
        => /\ pc = "exited"
           /\ call.res \in {"BadPassword", "ChallengeRequired"}

\* the third pass of a cycle: the target follow/unfollow or the welcome DMs
VariantPass == IF variant = "bot" THEN "follow_target_account" ELSE "dm_new_followers"

\* what follows pass p in a cycle when p failed without ending the process
AfterFailed(p) ==
    IF p = "handle_stories" THEN "engage_feed"
    ELSE IF p = "engage_feed" THEN VariantPass
    ELSE "cycle_sleep"

\* C17: the story pass is invoked first in a cycle, right after the login of
\* run() or the 1800 s sleep; the feed pass only after the story pass of the
\* cycle has returned; the variant pass only after the feed pass has returned;
\* no pass is invoked twice in a cycle; after the backoff of a transient
\* failure or a re-authentication that succeeded the thread is at the pass that
\* follows the failed one; the cycle number changes only with the 1800 s sleep.
C17_PassOrder ==
    [][ /\ \A p \in Passes : invoked'[p] <= 1
        /\ invoked'["handle_stories"] > invoked["handle_stories"]
              => /\ \A p \in Passes : invoked[p] = 0
                 /\ \/ call.op = "login" /\ call.res = "ok" /\ cycle = 1
                    \/ slept = [what |-> "cycle", tenths |-> 10 * CycleDelay]
        /\ invoked'["engage_feed"] > invoked["engage_feed"]
              => /\ invoked["handle_stories"] = 1
                 /\ results["handle_stories"] = "None"
                 /\ invoked[VariantPass] = 0
        /\ invoked'[VariantPass] > invoked[VariantPass]
              => /\ invoked["engage_feed"] = 1
                 /\ results["engage_feed"] = "None"
        /\ pc = "retry" => pc' = AfterFailed(pass)
        /\ (pc = "reauth" /\ call'.res = "ok") => pc' = AfterFailed(pass)
        /\ (cycle >= 1 /\ cycle' # cycle)
              => /\ cycle' = cycle + 1
                 /\ slept' = [what |-> "cycle", tenths |-> 10 * CycleDelay]
                 /\ pc = "cycle_sleep" /\ pc' = "handle_stories"
        /\ (pc # "handle_stories" /\ pc' = "handle_stories")
              => \/ pc = "run"
                 \/ slept' = [what |-> "cycle", tenths |-> 10 * CycleDelay] ]_vars

\* C17 witness: the story pass of the second cycle failed on a transient
\* error, the backoff was slept, and the thread is about to invoke the feed pass
C17_Witness ==
    /\ cycle = 2 /\ pc = "engage_feed" /\ pass = "handle_stories"
    /\ slept.what = "backoff"
    /\ invoked["handle_stories"] = 1 /\ invoked["engage_feed"] = 0

\* C18: cl.story_like is called only in the step that follows a successful
\* cl.story_seen of the same story, in the same pass, and only on a draw below
\* 0.7; after a story was marked seen exactly one draw is made: below 0.7
\* cl.story_like is called once for that story, at 0.7 or above no call is
\* made; cl.story_seen is called only for a story that is not in
\* viewed_stories, which only grows, so a viewed story is never marked seen or
\* liked again and no story is liked twice in a process.
C18_LikeAfterSeen ==
    [][ /\ call'.op = "story_like"
              => /\ pc = "story_like" /\ pass' = "handle_stories" /\ pass = pass'
                 /\ call = [op |-> "story_seen", id |-> call'.id, res |-> "ok"]
                 /\ call'.id = story /\ story \in viewed_stories
                 /\ draw' < LikeStoryThreshold
        /\ pc = "story_like"
              => /\ draw' \in Draws
                 /\ draw' < LikeStoryThreshold
                       => (call'.op = "story_like" /\ call'.id = story)
                 /\ draw' >= LikeStoryThreshold => call' = NoCall
                 /\ pc' \in {"for_story", "for_user"}
        /\ call'.op = "story_seen" => call'.id \notin viewed_stories
        /\ (call'.op = "story_seen" /\ call'.res = "ok")
              => (pc' = "story_like" /\ story' = call'.id)
        /\ pc' = "story_like" => (call'.op = "story_seen" /\ call'.res = "ok")
        /\ viewed_stories \subseteq viewed_stories' ]_vars

\* C18 witness: a story was marked seen, the draw was 0.7 or above, and the
\* pass went on without a call of cl.story_like
C18_Witness ==
    /\ pass = "handle_stories" /\ pc \in {"for_story", "for_user"}
    /\ draw = LikeStoryThreshold /\ call = NoCall
    /\ viewed_stories # {} /\ story_count >= 1

\* the tracker of each category
TrackerOf(c) ==
    IF c = "story_views" THEN viewed_stories
    ELSE IF c = "likes" THEN liked_posts
    ELSE IF c = "comments" THEN commented_posts
    ELSE IF c = "follows" THEN followed_accounts
    ELSE messaged_users

\* C19: an id enters a tracker only in the step in which the provider action of
\* the tracker's category returned for that id, and it is the only id that
\* enters; a step whose provider call raised adds nothing to any tracker; so
\* every member of a tracker was acted on successfully, or, for
\* messaged_users, was loaded from the file.
C19_RecordedOnlyAfterSuccess ==
    [][ /\ \A c \in DOMAIN ever :
              \A i \in TrackerOf(c)' \ TrackerOf(c) :
                  call' = [op |-> ActionOf[c], id |-> i, res |-> "ok"]
        /\ call'.res \notin {"ok", "none"}
              => \A c \in DOMAIN ever : TrackerOf(c)' \subseteq TrackerOf(c)
        /\ "dms" \in DOMAIN ever
              => \A v \in messaged_users' :
                    v \in loaded' \/ dms_sent'[Account(v)] >= 1 ]_vars

\* C19 witness: cl.user_follow raised, the wrapper has returned None and the
\* target is not in followed_accounts
C19_Witness ==
    /\ call.op = "user_follow" /\ call.res = "Exception"
    /\ ret = "None" /\ followed_accounts = {}

\* C20: in src/bot.py, in a run whose cycles keep ending, whenever a cycle
\* ends with the target still in followed_accounts, unfollow_target_account
\* is invoked again later.
C20_UnfollowRetried ==
    ([]<>(pc = "cycle_sleep"))
        => [](( pc = "cycle_sleep" /\ TargetAccount \in followed_accounts)
                 => <>(pc = "unfollow_target_account"))

====
